---- MODULE Spec2Model ----
(***************************************************************************)
(* Model of the procedural network generators of the cocoon visualizer     *)
(* (js/generators.js) together with the DataManager catalog they read.     *)
(*                                                                         *)
(* A generator call is a run of the state machine: the call action does    *)
(* the catalog lookup, the dispatch and the prologue of the selected       *)
(* generator; every loop iteration of the generator is one further step;   *)
(* the final step returns the result.  A TypeError raised by reading a     *)
(* property of undefined ends the call with outcome "threw".               *)
(*                                                                         *)
(* Numbers.  Node counts and indices are integers.  Weights are kept in    *)
(* hundredths (1 - c*0.2 is 100 - c*20).  NaN is the value NaN below; a    *)
(* comparison with NaN is false, as in JavaScript.                         *)
(*                                                                         *)
(* Randomness.  Math.random() returns v/RandRes for an integer v in        *)
(* 0..RandRes-1.  The draws of one call are the elements of a stream rnd   *)
(* chosen when the call starts, read in the order in which the code calls  *)
(* Math.random(); the stream repeats with period MaxPeriod.  The draws of   *)
(* the one unbounded loop (the redraw of a rewired target) are free.       *)
(*                                                                         *)
(* The application around the generators is modelled in three further    *)
(* specifications over the same variables: NCXLoader (processNCXData, the  *)
(* timeline and the playback timer), InternalViewer (open, close, the      *)
(* animation-frame callbacks) and regenerate() with the Renderer state it  *)
(* touches.  A handler runs to completion: it is one step, except for a    *)
(* generator call, whose steps no other handler interleaves with.  Timers  *)
(* and animation frames are sets of live handles.                          *)
(*                                                                         *)
(* Coordinates.  The sphere-surface generator keeps x, y, z in             *)
(* thousandths, because they decide which connections it emits.  The       *)
(* coordinates of the other generators are written and never read by the   *)
(* generators: those positions keep their layer or their type tag only.    *)
(***************************************************************************)
EXTENDS Integers, Sequences, FiniteSets, TLC

----------------------------------------------------------------------------
(* Bounds of the model *)

MaxLayers == 3        \* numLayers ranges over 0..MaxLayers
MaxCount == 11        \* cocoonCount / targetCount of a topology call
MaxRewired == 4       \* cocoonCount of a small-world call with rewireProb > 0
MaxCocoons == 3       \* endCocoons / centerCocoons of the hourglass config
MaxK == 4             \* kNeighbors of the small-world config
MaxNodeCount == 17    \* nodeCount of an internal-structure call
RandRes == 4          \* Math.random() returns v/RandRes, v in 0..RandRes-1
MaxPeriod == 2        \* the draws of one call repeat with this period
MaxHistory == 3       \* entries of the history of an NCX document
MaxTimestep == 2      \* timestep values of the history entries
MaxCocoonsIn == 2     \* cocoons of an NCX document
MaxConnsIn == 1       \* connections of an NCX document in array form
MaxStrLen == 3        \* characters of the connections in compact string form
MaxFrames == 3        \* pending animation-frame callbacks of the internal viewer
MaxDemoCount == 3     \* App.cocoonCount of the live demo

----------------------------------------------------------------------------
(* Arithmetic helpers *)

\* stands for the JavaScript number NaN; no number of the model has this value
NaN == -1000000

\* a field that is absent reads as undefined
Undefined == -1000001

\* null, where the other values of the variable are numbers
Null == -1000002

\* null, where the other values of the variable are objects
NullObject == [ null |-> TRUE ]

Min(a, b) == IF a < b THEN a ELSE b

Max(a, b) == IF a < b THEN b ELSE a

\* JavaScript a < b on numbers: false as soon as one side is NaN
Lt(a, b) == a # NaN /\ b # NaN /\ a < b

\* Math.max(1, x): NaN if x is NaN
MathMax1(x) == IF x = NaN THEN NaN ELSE Max(1, x)

\* arr[k] of a 0-based JavaScript array: undefined outside the array
At(arr, k) == IF k + 1 \in DOMAIN arr THEN arr[k + 1] ELSE "undefined"

RECURSIVE Flatten(_)
\* the concatenation of the lists of a list of lists
Flatten(lists) == IF lists = << >> THEN << >> ELSE Head(lists) \o Flatten(Tail(lists))

RandVals == 0 .. (RandRes - 1)

\* Math.floor(Math.random() * n) for the draw v/RandRes
RandIndex(v, n) == (v * n) \div RandRes

\* Math.random() < pct/100 for the draw v/RandRes
RandBelow(v, pct) == v * 100 < pct * RandRes

\* fixed-point scale of the sphere coordinates
Scale == 1000

\* Math.cos(phi * idx) and Math.sin(phi * idx) for the golden angle
\* phi = Math.PI * (3 - Math.sqrt(5)) (line 223, 230), idx = 0, 1, ..., in thousandths
CosGolden ==
    << 1000, -737, 87, 608, -985, 844, -260, -461, 939, -924, 424, 299,
       -865, 977, -575, -129, 765, -999, 709, -46, -641, 991, -821, 219 >>

SinGolden ==
    << 0, 675, -996, 794, -174, -537, 966, -887, 343, 382, -906, 954,
       -501, -215, 818, -992, 644, 41, -705, 999, -768, 133, 571, -976 >>

TypeNameList == << "sensor", "processor", "memory", "modulator" >>

\* Object.keys(DataManager.types) for the contents types.json may have: the
\* first names of the list, at least one
TypeNameLists == { SubSeq(TypeNameList, 1, n) : n \in 1 .. Len(TypeNameList) }

----------------------------------------------------------------------------
(* Catalog records (data/topologies/*.json, data/structures/*.json).  A    *)
(* config is the record of the fields the generators read; "missing" is    *)
(* the set of property paths that are absent from the JSON record.         *)

TopologyNames == { "funnel", "onion", "smallworld", "hourglass" }

StructureNames == { "sphere", "random" }

TypeDistribution ==
    [ apex |-> << "sensor" >>,
      middle |-> << "processor", "memory" >>,
      base |-> << "modulator", "processor", "memory" >>,
      input |-> << "sensor" >>,
      compress |-> << "processor", "memory" >>,
      center |-> << "memory" >>,
      expand |-> << "processor", "modulator" >>,
      output |-> << "modulator", "sensor" >> ]

BaseConfig(t) ==
    [ type |-> t, missing |-> {}, numLayers |-> 2, kNeighbors |-> 2,
      rewirePct |-> 0, endCocoons |-> 2, centerCocoons |-> 1,
      nodeDistribution |-> "none", thresholdPct |-> 30, densityPct |-> 100,
      typeDistribution |-> TypeDistribution ]

\* the config variable while no catalog record is in use
NoConfig == BaseConfig("none")

TopologyPaths ==
    { "generator", "parameters", "parameters.numLayers", "visualization",
      "visualization.spacing", "visualization.typeDistribution" }

FunnelConfigs ==
    { [ BaseConfig("funnel") EXCEPT !.numLayers = n ] : n \in 0 .. MaxLayers }
    \cup { [ BaseConfig("funnel") EXCEPT !.missing = { p } ] : p \in TopologyPaths }

OnionConfigs ==
    { [ BaseConfig("onion") EXCEPT !.numLayers = n ] : n \in 0 .. MaxLayers }
    \cup { [ BaseConfig("onion") EXCEPT !.missing = { p } ] : p \in TopologyPaths }

RewirePcts == { 0, 50 }

SmallWorldConfigs ==
    { [ BaseConfig("smallworld") EXCEPT !.kNeighbors = k, !.rewirePct = p ] :
        k \in 0 .. MaxK, p \in RewirePcts }
    \cup { [ BaseConfig("smallworld") EXCEPT !.missing = { p } ] : p \in TopologyPaths }

HourglassConfigs ==
    { [ BaseConfig("hourglass") EXCEPT !.numLayers = n, !.endCocoons = e, !.centerCocoons = c ] :
        n \in 0 .. MaxLayers, e \in 0 .. MaxCocoons, c \in 0 .. MaxCocoons }
    \cup { [ BaseConfig("hourglass") EXCEPT !.missing = { p } ] : p \in TopologyPaths }

StructurePaths ==
    { "generator", "parameters", "parameters.distanceThreshold",
      "parameters.connectionDensity" }

ThresholdPcts == { 30, 60 }

DensityPcts == { 100, 200 }

SphereConfigs ==
    { [ BaseConfig("sphere") EXCEPT !.nodeDistribution = "fibonacci_sphere",
                                    !.thresholdPct = t ] : t \in ThresholdPcts }
    \cup { [ BaseConfig("sphere") EXCEPT !.nodeDistribution = "fibonacci_sphere",
                                         !.missing = { p } ] : p \in StructurePaths }

RandomConfigs ==
    { [ BaseConfig("random") EXCEPT !.nodeDistribution = "random", !.densityPct = d ] :
        d \in DensityPcts }
    \cup { [ BaseConfig("random") EXCEPT !.nodeDistribution = "random",
                                         !.missing = { p } ] : p \in StructurePaths }

StructureConfigs == SphereConfigs \cup RandomConfigs

\* DataManager.structures: no entry before loadAll, else the loaded entries
StructureCatalogs ==
    { << >> } \cup { [ n \in { c.type } |-> c ] : c \in StructureConfigs }

TopologyConfigs ==
    FunnelConfigs \cup OnionConfigs \cup SmallWorldConfigs \cup HourglassConfigs
    \cup { BaseConfig("grid") }

\* DataManager.topologies: no entry before loadAll, else the loaded entries
TopologyCatalogs ==
    { << >> } \cup
    { [ n \in { c.type } \cap TopologyNames |-> c ] : c \in TopologyConfigs }
    \cup { [ n \in { "funnel" } |-> BaseConfig("grid") ] }

----------------------------------------------------------------------------
VARIABLES
    topologies,      \* DataManager.topologies
    structures,      \* DataManager.structures
    typeNames,       \* Object.keys(DataManager.types)
    pc,              \* position of the running call
    name,            \* topologyName / structureName argument of the calls
    cocoonCount,     \* cocoonCount / targetCount / nodeCount argument of the calls
    config,          \* the catalog record handed to the generator
    positions, connections, types,   \* the arrays under construction
    layerCocoonIds,  \* per-layer id lists
    cocoonId,        \* next node id
    layer, i, j,     \* loop counters
    target,          \* small-world rewiring target
    result,          \* the returned network description
    outcome,         \* "none", "returned" or "threw"
    callee,          \* the entry point of the running call
    lastFunnel,      \* history: the funnel result the caller took last
    rnd,             \* the stream of draws of the running call
    rndPos,          \* number of draws made so far, modulo the period
    data,            \* the parsed NCX document handed to processNCXData
    currentExperiment,  \* NCXLoader.currentExperiment
    currentTimestep, \* NCXLoader.currentTimestep
    isPlaying,       \* NCXLoader.isPlaying
    playbackInterval,   \* NCXLoader.playbackInterval: the handle stored last
    timers,          \* the interval timers of the window that are live
    stopUpdates,     \* history: onUpdate(false) calls since playback started
    isOpen,          \* InternalViewer.isOpen
    currentCocoonId, \* InternalViewer.currentCocoonId
    modalDisplay,    \* style.display of the internal-modal element
    animationId,     \* InternalViewer.animationId: the handle stored last
    frames,          \* the animation-frame callbacks of the viewer that are pending
    showFlow,        \* Renderer.showFlow
    autoRotate,      \* Renderer.autoRotate
    currentNetwork,  \* Renderer.currentNetwork
    flowParticles,   \* Renderer.flowParticles
    wasFlowEnabled,  \* local of the running regenerate()
    wasAutoRotate    \* local of the running regenerate()

catalogVars == << topologies, structures, typeNames >>
argVars == << name, cocoonCount, config, callee >>
arrayVars == << positions, connections, types >>
loopVars == << layerCocoonIds, cocoonId, layer, i, j, target >>
rndVars == << rnd, rndPos >>
genVars == << catalogVars, pc, argVars, arrayVars, loopVars, result, outcome, rndVars,
             lastFunnel >>
loaderVars == << data, currentExperiment, currentTimestep, isPlaying, playbackInterval,
                timers, stopUpdates >>
viewerVars == << isOpen, currentCocoonId, modalDisplay, animationId, frames >>
rendererVars == << showFlow, autoRotate, currentNetwork, flowParticles,
                  wasFlowEnabled, wasAutoRotate >>
appVars == << loaderVars, viewerVars, rendererVars >>
vars == << genVars, appVars >>

\* the result variable while no call has returned
NoResult == [ positions |-> << >>, connections |-> << >> ]

EmptyTopologyResult == [ positions |-> << >>, connections |-> << >>, types |-> << >> ]

EmptyStructureResult == [ positions |-> << >>, connections |-> << >> ]

\* no generator call is running
NoCall ==
    /\ pc = "idle"
    /\ config = NoConfig
    /\ callee = "none"
    /\ lastFunnel = [ seen |-> FALSE, rnd |-> << >>, value |-> NoResult ]
    /\ positions = << >>
    /\ connections = << >>
    /\ types = << >>
    /\ layerCocoonIds = << >>
    /\ cocoonId = 0
    /\ layer = 0
    /\ i = 0
    /\ j = 1
    /\ target = 0
    /\ result = NoResult
    /\ outcome = "none"
    /\ rnd = [ k \in 1 .. MaxPeriod |-> 0 ]
    /\ rndPos = 0

\* the object literals of NCXLoader, InternalViewer and Renderer
LoaderInit ==
    /\ currentExperiment = NullObject
    /\ currentTimestep = 0
    /\ isPlaying = FALSE
    /\ playbackInterval = Null
    /\ timers = { }
    /\ stopUpdates = 0

ViewerInit ==
    /\ isOpen = FALSE
    /\ currentCocoonId = Null
    /\ modalDisplay = "none"
    /\ animationId = Null
    /\ frames = { }

RendererInit ==
    /\ showFlow = FALSE
    /\ autoRotate = TRUE
    /\ currentNetwork = NullObject
    /\ flowParticles = << >>
    /\ wasFlowEnabled = FALSE
    /\ wasAutoRotate = FALSE

Init ==
    /\ \/ /\ topologies \in TopologyCatalogs
          /\ structures = << >>
          /\ name \in TopologyNames \cup { "doesnotexist" }
          /\ cocoonCount \in 0 .. MaxCount
          /\ (\E n \in DOMAIN topologies : topologies[n].rewirePct > 0) =>
                cocoonCount <= MaxRewired
       \/ /\ topologies = << >>
          /\ structures \in StructureCatalogs
          /\ name \in StructureNames \cup { "doesnotexist" }
          /\ cocoonCount \in 0 .. MaxNodeCount
    /\ typeNames \in TypeNameLists
    /\ typeNames # TypeNameList =>
          \E n \in DOMAIN topologies :
              topologies[n] \in { BaseConfig("onion"), BaseConfig("smallworld") }
    /\ NoCall
    /\ data = NullObject
    /\ LoaderInit
    /\ ViewerInit
    /\ RendererInit

----------------------------------------------------------------------------
(* DataManager *)

\* mutation of getTopology: an unknown name falls back to a loaded topology
getTopologyFallback(n) ==
    IF n \in DOMAIN topologies
    THEN { topologies[n] }
    ELSE { topologies[m] : m \in DOMAIN topologies }

\* DataManager.getTopology(name): this.topologies[name] || null
getTopology(n) == IF n \in DOMAIN topologies THEN { topologies[n] } ELSE {}

\* DataManager.getStructure(name): this.structures[name] || null
getStructure(n) == IF n \in DOMAIN structures THEN { structures[n] } ELSE {}

----------------------------------------------------------------------------
(* Call frames *)

\* mutation of Frame: the arrays of the call before are used again
FrameReuse(label, cfg, value, out) ==
    /\ pc' = label
    /\ config' = cfg
    /\ UNCHANGED << positions, connections, types, layerCocoonIds >>
    /\ cocoonId' = 0
    /\ layer' = 0
    /\ i' = 0
    /\ j' = 1
    /\ target' = 0
    /\ result' = value
    /\ outcome' = out

\* the first step of a call: fresh arrays, counters at their start values
Frame(label, cfg, value, out) ==
    /\ pc' = label
    /\ config' = cfg
    /\ positions' = << >>
    /\ connections' = << >>
    /\ types' = << >>
    /\ layerCocoonIds' = << >>
    /\ cocoonId' = 0
    /\ layer' = 0
    /\ i' = 0
    /\ j' = 1
    /\ target' = 0
    /\ result' = value
    /\ outcome' = out

\* entry of a generator
Enter(label, cfg) == Frame(label, cfg, NoResult, "none")

\* a call that ends in its first step, returning value
ReturnAtOnce(cfg, value) == Frame("done", cfg, value, "returned")

\* a call that ends in its first step with a TypeError
ThrowAtOnce(cfg) == Frame("done", cfg, NoResult, "threw")

\* return statement of a running generator
Return(value) ==
    /\ pc' = "done"
    /\ result' = value
    /\ outcome' = "returned"
    /\ UNCHANGED << appVars, catalogVars, lastFunnel, argVars, arrayVars, loopVars, rndVars >>

\* TypeError inside a running generator
Throw ==
    /\ pc' = "done"
    /\ outcome' = "threw"
    /\ UNCHANGED << appVars, catalogVars, lastFunnel, argVars, arrayVars, loopVars, result, rndVars >>

\* the streams of draws a call is started with: every stream of the period;
\* for a generator whose code holds no call of Math.random() (generateFunnel,
\* generateHourglass) and for a call without catalog record, the two
\* constant streams of the lowest and of the highest draw
Streams(n, catalog) ==
    IF n \in DOMAIN catalog /\ catalog[n].type \notin { "funnel", "hourglass", "grid" }
    THEN [ 1 .. MaxPeriod -> RandVals ]
    ELSE { [ k \in 1 .. MaxPeriod |-> v ] : v \in { 0, RandRes - 1 } }

\* mutation of PushNode: the push of the type is lost
PushNodeNoType(position, type) ==
    /\ positions' = Append(positions, position)
    /\ types' = types

\* mutation of PushId: the index within the layer is pushed, not the node id
PushIndexInLayer(ids, l, id) == [ ids EXCEPT ![l + 1] = Append(@, Len(@)) ]

\* positions.push(...) and types.push(...) of one node of a topology
\* (line 69-70, 125-126, 167-172, 346-347)
PushNode(position, type) ==
    /\ positions' = Append(positions, position)
    /\ types' = Append(types, type)

\* layerCocoonIds[layer].push(cocoonId) (line 71, 127, 348)
PushId(ids, l, id) == [ ids EXCEPT ![l + 1] = Append(@, id) ]

\* the k-th call of Math.random() of the current step, k = 0, 1, ...
Draw(k) == rnd[((rndPos + k) % Len(rnd)) + 1]

\* the current step has called Math.random() n times
Drawn(n) == rndPos' = (rndPos + n) % Len(rnd)

----------------------------------------------------------------------------
(* generateFunnel *)

\* mutation of FunnelCount: the ratio is not squared
FunnelCountLinear(l, numLayers, targetCount) ==
    IF numLayers = 1
    THEN NaN
    ELSE MathMax1(1 + ((targetCount - 1) * l) \div (numLayers - 1))

\* const count of the layer (generators.js line 50-51)
FunnelCount(l, numLayers, targetCount) ==
    IF numLayers = 1
    THEN NaN
    ELSE MathMax1(1 + ((targetCount - 1) * l * l) \div ((numLayers - 1) * (numLayers - 1)))

\* layerTypes of the layer (line 58-61)
FunnelLayerTypes(l, numLayers, typeDistribution) ==
    IF l = 0 THEN typeDistribution.apex
    ELSE IF l = numLayers - 1 THEN typeDistribution.base
    ELSE typeDistribution.middle

\* mutation of FanIn: the first predecessor is drawn at random
FanInRandom(l, prevLayer, idx, count, id, step) ==
    IF l > 0 /\ Len(prevLayer) > 0
    THEN [ c \in 1 .. Min(3, Len(prevLayer)) |->
             [ from |-> At(prevLayer, (RandIndex(rnd[1], Len(prevLayer)) + (c - 1)) % Len(prevLayer)),
               to |-> id,
               weight |-> 100 - (c - 1) * step ] ]
    ELSE << >>

\* mutation of FanIn: the index is not mapped in proportion to the layer sizes
FanInSameIndex(l, prevLayer, idx, count, id, step) ==
    IF l > 0 /\ Len(prevLayer) > 0
    THEN [ c \in 1 .. Min(3, Len(prevLayer)) |->
             [ from |-> At(prevLayer, (idx + (c - 1)) % Len(prevLayer)),
               to |-> id,
               weight |-> 100 - (c - 1) * step ] ]
    ELSE << >>

\* the connections node idx (id) of a layer of count nodes gets from prevLayer,
\* weights falling by step hundredths (line 74-86 and 351-363)
FanIn(l, prevLayer, idx, count, id, step) ==
    IF l > 0 /\ Len(prevLayer) > 0
    THEN [ c \in 1 .. Min(3, Len(prevLayer)) |->
             [ from |-> At(prevLayer, (((idx * Len(prevLayer)) \div count) + (c - 1)) % Len(prevLayer)),
               to |-> id,
               weight |-> 100 - (c - 1) * step ] ]
    ELSE << >>

\* layerCocoonIds[layer - 1]
PrevLayer == IF layer > 0 THEN layerCocoonIds[layer] ELSE << >>

\* prologue (line 38-47)
generateFunnel(cfg) ==
    IF cfg.missing \cap { "parameters", "parameters.numLayers", "visualization" } # {}
    THEN ThrowAtOnce(cfg)
    ELSE Enter("funnel_layer", cfg)

\* one test of the layer loop with the layer's header (line 49-61), or return
funnelLayer ==
    /\ pc = "funnel_layer"
    /\ IF Lt(layer, config.numLayers)
       THEN IF config.missing \cap { "visualization.spacing", "visualization.typeDistribution" } # {}
            THEN Throw
            ELSE /\ layerCocoonIds' = Append(layerCocoonIds, << >>)
                 /\ i' = 0
                 /\ pc' = "funnel_node"
                 /\ UNCHANGED << appVars, catalogVars, lastFunnel, argVars, arrayVars, cocoonId, layer, j,
                                 target, result, outcome, rndVars >>
       ELSE Return([ positions |-> positions, connections |-> connections,
                     types |-> types, layers |-> config.numLayers ])

\* one test of the node loop with its body (line 63-89)
funnelNode ==
    /\ pc = "funnel_node"
    /\ LET count == FunnelCount(layer, config.numLayers, cocoonCount)
           layerTypes == FunnelLayerTypes(layer, config.numLayers, config.typeDistribution)
       IN IF Lt(i, count)
          THEN /\ PushNode([ layer |-> layer ], At(layerTypes, i % Len(layerTypes)))
               /\ layerCocoonIds' = PushId(layerCocoonIds, layer, cocoonId)
               /\ connections' = connections \o FanIn(layer, PrevLayer, i, count, cocoonId, 20)
               /\ cocoonId' = cocoonId + 1
               /\ i' = i + 1
               /\ UNCHANGED << pc, layer >>
          ELSE /\ layer' = layer + 1
               /\ pc' = "funnel_layer"
               /\ UNCHANGED << arrayVars, layerCocoonIds, cocoonId, i >>
    /\ UNCHANGED << appVars, catalogVars, lastFunnel, argVars, j, target, result, outcome, rndVars >>

----------------------------------------------------------------------------
(* generateOnion *)

\* const count of the layer (line 111)
OnionCount(l, targetCount) == Max(1, (targetCount * (l + 1)) \div 10)

\* mutation of OnionLink: the source is drawn among all nodes made so far
OnionLinkAnyEarlier(l, prevLayer, id, connect, pick) ==
    IF l > 0 /\ RandBelow(connect, 50)
    THEN << [ from |-> RandIndex(pick, id),
              to |-> id,
              weight |-> 80 ] >>
    ELSE << >>

\* the connection a node may get from the inner layer (line 130-138):
\* connect is the draw of line 130, pick the draw of line 132
OnionLink(l, prevLayer, id, connect, pick) ==
    IF l > 0 /\ RandBelow(connect, 50)
    THEN << [ from |-> At(prevLayer, RandIndex(pick, Len(prevLayer))),
              to |-> id,
              weight |-> 80 ] >>
    ELSE << >>

\* prologue (line 99-108)
generateOnion(cfg) ==
    IF cfg.missing \cap { "parameters", "parameters.numLayers", "visualization" } # {}
    THEN ThrowAtOnce(cfg)
    ELSE Enter("onion_layer", cfg)

\* one test of the layer loop with the layer's header (line 110-114), or return
onionLayer ==
    /\ pc = "onion_layer"
    /\ IF Lt(layer, config.numLayers)
       THEN IF "visualization.spacing" \in config.missing
            THEN Throw
            ELSE /\ layerCocoonIds' = Append(layerCocoonIds, << >>)
                 /\ i' = 0
                 /\ pc' = "onion_node"
                 /\ UNCHANGED << appVars, catalogVars, lastFunnel, argVars, arrayVars, cocoonId, layer, j,
                                 target, result, outcome, rndVars >>
       ELSE Return([ positions |-> positions, connections |-> connections,
                     types |-> types, layers |-> config.numLayers ])

\* one test of the node loop with its body (line 117-141)
onionNode ==
    /\ pc = "onion_node"
    /\ IF Lt(i, OnionCount(layer, cocoonCount))
       THEN /\ Drawn(IF layer = 0 THEN 1 ELSE IF RandBelow(Draw(1), 50) THEN 3 ELSE 2)
               /\ PushNode([ layer |-> layer ], At(typeNames, RandIndex(Draw(0), 4)))
               /\ layerCocoonIds' = PushId(layerCocoonIds, layer, cocoonId)
               /\ connections' = connections \o OnionLink(layer, PrevLayer, cocoonId, Draw(1), Draw(2))
               /\ cocoonId' = cocoonId + 1
               /\ i' = i + 1
               /\ UNCHANGED << pc, layer >>
       ELSE /\ layer' = layer + 1
            /\ pc' = "onion_layer"
            /\ UNCHANGED << arrayVars, layerCocoonIds, cocoonId, i, rndPos >>
    /\ UNCHANGED << appVars, catalogVars, lastFunnel, argVars, j, target, result, outcome, rnd >>

----------------------------------------------------------------------------
(* generateSmallWorld *)

\* the type pushed for node idx (line 170-172); pickType is the draw of line 172
SmallWorldType(idx, count, names, pickType) ==
    IF 10 * idx < count THEN "sensor"
    ELSE IF 10 * idx > 9 * count THEN "processor"
    ELSE At(names, RandIndex(pickType, 4))

\* calls of Math.random() for node idx: three for the jitter of x, y, z
\* (line 163-165), one more if its type is drawn (line 172)
SmallWorldDraws(idx, count) ==
    IF 10 * idx < count \/ 10 * idx > 9 * count THEN 3 ELSE 4

\* mutation of RingTarget: the neighbour without the wrap-around of the ring
RingTargetNoWrap(idx, jj, count) == idx + jj

\* mutation of RingTarget: the counter-clockwise neighbour
RingTargetBack(idx, jj, count) == (idx - jj + jj * count) % count

\* the ring neighbour of line 178
RingTarget(idx, jj, count) == (idx + jj) % count

\* the connection pushed at line 188-192
SmallWorldEdge(idx, to) == [ from |-> idx, to |-> to, weight |-> 70 ]

\* prologue (line 151-158)
generateSmallWorld(cfg) ==
    IF "parameters" \in cfg.missing
    THEN ThrowAtOnce(cfg)
    ELSE Enter("sw_node", cfg)

\* one test of the layout loop with its body (line 161-173)
smallWorldNode ==
    /\ pc = "sw_node"
    /\ IF i < cocoonCount
       THEN IF "visualization" \in config.missing
            THEN /\ Throw!1 /\ Throw!2
                 /\ UNCHANGED << arrayVars, i, j, rndPos >>
            ELSE /\ Drawn(SmallWorldDraws(i, cocoonCount))
                 /\ PushNode([ layer |-> 0 ], SmallWorldType(i, cocoonCount, typeNames, Draw(3)))
                 /\ i' = i + 1
                 /\ UNCHANGED << pc, connections, j, outcome >>
       ELSE /\ pc' = "sw_edge"
            /\ i' = 0
            /\ j' = 1
            /\ UNCHANGED << arrayVars, outcome, rndPos >>
    /\ UNCHANGED << appVars, catalogVars, lastFunnel, argVars, layerCocoonIds, cocoonId, layer, target,
                    result, rnd >>

\* one test of the loops of line 176-177 with the body up to the first test
\* of the while loop, or return
smallWorldEdge ==
    /\ pc = "sw_edge"
    /\ IF i < cocoonCount
       THEN /\ IF 2 * j <= config.kNeighbors
               THEN /\ Drawn(IF RandBelow(Draw(0), config.rewirePct) THEN 2 ELSE 1)
                    /\ target' = IF RandBelow(Draw(0), config.rewirePct)
                                 THEN RandIndex(Draw(1), cocoonCount)
                                 ELSE RingTarget(i, j, cocoonCount)
                    /\ IF RandBelow(Draw(0), config.rewirePct) /\ target' = i
                       THEN /\ pc' = "sw_rewire"
                            /\ UNCHANGED << connections, j >>
                       ELSE /\ connections' = Append(connections, SmallWorldEdge(i, target'))
                            /\ j' = j + 1
                            /\ UNCHANGED pc
                    /\ UNCHANGED i
               ELSE /\ i' = i + 1
                    /\ j' = 1
                    /\ UNCHANGED << pc, connections, target, rndPos >>
            /\ UNCHANGED << result, outcome >>
       ELSE /\ pc' = "done"
            /\ result' = [ positions |-> positions, connections |-> connections,
                           types |-> types, layers |-> 1 ]
            /\ outcome' = "returned"
            /\ UNCHANGED << connections, i, j, target, rndPos >>
    /\ UNCHANGED << appVars, catalogVars, lastFunnel, argVars, positions, types, layerCocoonIds, cocoonId,
                    layer, rnd >>

\* one round of the while loop (line 183-185) and, on leaving it, the push.
\* The number of rounds is not bounded, so the draws of the loop are not part
\* of the period of the stream: a round draws any value v and moves the
\* cursor on.
smallWorldRewire ==
    /\ pc = "sw_rewire"
    /\ Drawn(1)
    /\ \E v \in RandVals :
         /\ target' = RandIndex(v, cocoonCount)
         /\ IF target' = i
            THEN UNCHANGED << pc, connections, j >>
            ELSE /\ connections' = Append(connections, SmallWorldEdge(i, target'))
                 /\ j' = j + 1
                 /\ pc' = "sw_edge"
    /\ UNCHANGED << appVars, catalogVars, lastFunnel, argVars, positions, types, layerCocoonIds, cocoonId,
                    layer, i, result, outcome, rnd >>

\* a round of the while loop that draws a target other than i
rewireExit == smallWorldRewire /\ pc' = "sw_edge"

----------------------------------------------------------------------------
(* generateHourglass *)

\* mutation of HourglassCount: the end layers are sized by the target count
HourglassCountTarget(l, numLayers, endCocoons, centerCocoons) ==
    LET midLayer == numLayers \div 2
        distFromCenter == IF l < midLayer THEN midLayer - l ELSE l - midLayer
    IN IF midLayer = 0
       THEN NaN
       ELSE (2 * (centerCocoons * midLayer + (cocoonCount - centerCocoons) * distFromCenter)
             + midLayer) \div (2 * midLayer)

\* const count of the layer (line 311, 317-322); Math.round rounds half up
HourglassCount(l, numLayers, endCocoons, centerCocoons) ==
    LET midLayer == numLayers \div 2
        distFromCenter == IF l < midLayer THEN midLayer - l ELSE l - midLayer
    IN IF midLayer = 0
       THEN NaN
       ELSE (2 * (centerCocoons * midLayer + (endCocoons - centerCocoons) * distFromCenter)
             + midLayer) \div (2 * midLayer)

\* layerTypes of the layer (line 333-338)
HourglassLayerTypes(l, numLayers, typeDistribution) ==
    LET midLayer == numLayers \div 2
    IN IF l = 0 THEN typeDistribution.input
       ELSE IF l < midLayer THEN typeDistribution.compress
       ELSE IF l = midLayer THEN typeDistribution.center
       ELSE IF l < numLayers - 1 THEN typeDistribution.expand
       ELSE typeDistribution.output

\* prologue (line 301-313)
generateHourglass(cfg) ==
    IF cfg.missing \cap { "parameters", "parameters.numLayers", "visualization" } # {}
    THEN ThrowAtOnce(cfg)
    ELSE Enter("hourglass_layer", cfg)

\* one test of the layer loop with the layer's header (line 315-338), or return
hourglassLayer ==
    /\ pc = "hourglass_layer"
    /\ IF Lt(layer, config.numLayers)
       THEN IF config.missing \cap { "visualization.spacing", "visualization.typeDistribution" } # {}
            THEN Throw
            ELSE /\ layerCocoonIds' = Append(layerCocoonIds, << >>)
                 /\ i' = 0
                 /\ pc' = "hourglass_node"
                 /\ UNCHANGED << appVars, catalogVars, lastFunnel, argVars, arrayVars, cocoonId, layer, j,
                                 target, result, outcome, rndVars >>
       ELSE Return([ positions |-> positions, connections |-> connections,
                     types |-> types, layers |-> config.numLayers ])

\* one test of the node loop with its body (line 340-366)
hourglassNode ==
    /\ pc = "hourglass_node"
    /\ LET count == HourglassCount(layer, config.numLayers, config.endCocoons,
                                   config.centerCocoons)
           layerTypes == HourglassLayerTypes(layer, config.numLayers, config.typeDistribution)
       IN IF Lt(i, count)
          THEN /\ PushNode([ layer |-> layer ], At(layerTypes, i % Len(layerTypes)))
               /\ layerCocoonIds' = PushId(layerCocoonIds, layer, cocoonId)
               /\ connections' = connections \o FanIn(layer, PrevLayer, i, count, cocoonId, 15)
               /\ cocoonId' = cocoonId + 1
               /\ i' = i + 1
               /\ UNCHANGED << pc, layer >>
          ELSE /\ layer' = layer + 1
               /\ pc' = "hourglass_layer"
               /\ UNCHANGED << arrayVars, layerCocoonIds, cocoonId, i >>
    /\ UNCHANGED << appVars, catalogVars, lastFunnel, argVars, j, target, result, outcome, rndVars >>

----------------------------------------------------------------------------
(* generateInternalStructure *)

\* mutation of NodeTag: the output range starts one node late
NodeTagLate(idx, nodeCount) ==
    IF idx < 8 THEN "input"
    ELSE IF idx > nodeCount - 8 THEN "output"
    ELSE "internal"

\* the type tag of node idx (line 236 and 277)
NodeTag(idx, nodeCount) ==
    IF idx < 8 THEN "input"
    ELSE IF idx >= nodeCount - 8 THEN "output"
    ELSE "internal"

\* Math.sqrt on thousandths, rounded down
Sqrt(x) == CHOOSE r \in 0 .. 3 * Scale : r * r <= x /\ x < (r + 1) * (r + 1)

\* the point of node idx on the Fibonacci sphere (line 228-237), in thousandths;
\* with nodeCount = 1 the division of line 228 is 0/0
SpherePosition(idx, nodeCount) ==
    IF nodeCount = 1
    THEN [ x |-> NaN, y |-> NaN, z |-> NaN, type |-> NodeTag(idx, nodeCount) ]
    ELSE LET y3 == 3 * Scale - (6 * Scale * idx) \div (nodeCount - 1)
             radius == Sqrt(9 * Scale * Scale - y3 * y3)
         IN [ x |-> (CosGolden[idx + 1] * radius) \div Scale,
              y |-> y3,
              z |-> (SinGolden[idx + 1] * radius) \div Scale,
              type |-> NodeTag(idx, nodeCount) ]

\* square of the distance of line 243-247, in thousandths squared
Dist2(p, q) ==
    (p.x - q.x) * (p.x - q.x) + (p.y - q.y) * (p.y - q.y) + (p.z - q.z) * (p.z - q.z)

\* threshold * 4 in thousandths
Reach(thresholdPct) == (4 * thresholdPct * Scale) \div 100

\* dist < threshold * 4 (line 249)
Near(p, q, thresholdPct) ==
    p.x # NaN /\ q.x # NaN /\ Dist2(p, q) < Reach(thresholdPct) * Reach(thresholdPct)

\* the connection of line 250-254; the weight 1 - dist / (threshold * 4) in
\* hundredths, rounded up
SphereEdge(idx, jdx, p, q, thresholdPct) ==
    [ from |-> idx, to |-> jdx,
      weight |-> 100 - (100 * Sqrt(Dist2(p, q))) \div Reach(thresholdPct) ]

\* Math.random() < density * 0.15 (line 284) for the draw v/RandRes
DensityHit(v, densityPct) == v * 10000 < densityPct * 15 * RandRes

\* the connection of line 285-289; the weight is the draw w/RandRes in hundredths
RandomEdge(idx, jdx, w) == [ from |-> idx, to |-> jdx, weight |-> (100 * w) \div RandRes ]

\* prologue of generateSphereSurface (line 220-224)
generateSphereSurface(cfg) ==
    IF cfg.missing \cap { "parameters", "parameters.distanceThreshold" } # {}
    THEN ThrowAtOnce(cfg)
    ELSE Enter("sphere_node", cfg)

\* prologue of generateRandomGraph (line 266-269)
generateRandomGraph(cfg) ==
    IF cfg.missing \cap { "parameters", "parameters.connectionDensity" } # {}
    THEN ThrowAtOnce(cfg)
    ELSE Enter("random_node", cfg)

\* mutation of NextPair: the inner loop starts at j = i
NextPairFromSelf(label) ==
    IF j + 1 < Len(positions)
    THEN /\ j' = j + 1
         /\ UNCHANGED << i, pc >>
    ELSE /\ i' = i + 1
         /\ j' = i + 1
         /\ pc' = label

\* the pair loops of line 241-242 and 282-283 step from (i, j) to the next pair
\* i < j < positions.length; the inner loop starts at j = i + 1
NextPair(label) ==
    IF j + 1 < Len(positions)
    THEN /\ j' = j + 1
         /\ UNCHANGED << i, pc >>
    ELSE /\ i' = i + 1
         /\ j' = i + 2
         /\ pc' = label

\* one test of the node loop with its body (line 227-238)
sphereNode ==
    /\ pc = "sphere_node"
    /\ IF i < cocoonCount
       THEN /\ positions' = Append(positions, SpherePosition(i, cocoonCount))
            /\ i' = i + 1
            /\ UNCHANGED << pc, j >>
       ELSE /\ pc' = "sphere_edge"
            /\ i' = 0
            /\ j' = 1
            /\ UNCHANGED positions
    /\ UNCHANGED << appVars, catalogVars, lastFunnel, argVars, connections, types, layerCocoonIds, cocoonId,
                    layer, target, result, outcome, rndVars >>

\* one pair of the connection loops (line 241-257), or return
sphereEdge ==
    /\ pc = "sphere_edge"
    /\ IF j < Len(positions)
       THEN /\ IF Near(positions[i + 1], positions[j + 1], config.thresholdPct)
               THEN /\ Drawn(1)
                    /\ connections' =
                         IF RandBelow(Draw(0), 25)
                         THEN Append(connections,
                                     SphereEdge(i, j, positions[i + 1], positions[j + 1],
                                                config.thresholdPct))
                         ELSE connections
               ELSE UNCHANGED << connections, rndPos >>
            /\ NextPair("sphere_edge")
            /\ UNCHANGED << result, outcome >>
       ELSE /\ pc' = "done"
            /\ result' = [ positions |-> positions, connections |-> connections ]
            /\ outcome' = "returned"
            /\ UNCHANGED << connections, i, j, rndPos >>
    /\ UNCHANGED << appVars, catalogVars, lastFunnel, argVars, positions, types, layerCocoonIds, cocoonId,
                    layer, target, rnd >>

\* one test of the node loop with its body (line 272-279): three draws for x, y, z
randomNode ==
    /\ pc = "random_node"
    /\ IF i < cocoonCount
       THEN /\ Drawn(3)
            /\ positions' = Append(positions, [ type |-> NodeTag(i, cocoonCount) ])
            /\ i' = i + 1
            /\ UNCHANGED << pc, j >>
       ELSE /\ pc' = "random_edge"
            /\ i' = 0
            /\ j' = 1
            /\ UNCHANGED << positions, rndPos >>
    /\ UNCHANGED << appVars, catalogVars, lastFunnel, argVars, connections, types, layerCocoonIds, cocoonId,
                    layer, target, result, outcome, rnd >>

\* one pair of the connection loops (line 282-292), or return
randomEdge ==
    /\ pc = "random_edge"
    /\ IF j < Len(positions)
       THEN /\ IF DensityHit(Draw(0), config.densityPct)
               THEN /\ Drawn(2)
                    /\ connections' = Append(connections, RandomEdge(i, j, Draw(1)))
               ELSE /\ Drawn(1)
                    /\ UNCHANGED connections
            /\ NextPair("random_edge")
            /\ UNCHANGED << result, outcome >>
       ELSE /\ pc' = "done"
            /\ result' = [ positions |-> positions, connections |-> connections ]
            /\ outcome' = "returned"
            /\ UNCHANGED << connections, i, j, rndPos >>
    /\ UNCHANGED << appVars, catalogVars, lastFunnel, argVars, positions, types, layerCocoonIds, cocoonId,
                    layer, target, rnd >>

generateInternalStructure ==
    /\ pc = "idle"
    /\ rnd' \in Streams(name, structures)
    /\ rndPos' = 0
    /\ IF getStructure(name) = {}
       THEN ReturnAtOnce(NoConfig, EmptyStructureResult)
       ELSE LET structure == CHOOSE c \in getStructure(name) : TRUE
            IN IF "generator" \in structure.missing
               THEN ThrowAtOnce(structure)
               ELSE IF structure.nodeDistribution = "fibonacci_sphere"
                    THEN generateSphereSurface(structure)
                    ELSE generateRandomGraph(structure)
    /\ callee' = "generateInternalStructure"
    /\ UNCHANGED << appVars, catalogVars, lastFunnel, name, cocoonCount >>

----------------------------------------------------------------------------
(* generateTopology *)

generateTopologyCall ==
    /\ pc = "idle"
    /\ rnd' \in Streams(name, topologies)
    /\ rndPos' = 0
    /\ IF getTopology(name) = {}
       THEN ReturnAtOnce(NoConfig, EmptyTopologyResult)
       ELSE LET topology == CHOOSE c \in getTopology(name) : TRUE
            IN IF "generator" \in topology.missing
               THEN ThrowAtOnce(topology)
               ELSE CASE topology.type = "funnel" -> generateFunnel(topology)
                      [] topology.type = "onion" -> generateOnion(topology)
                      [] topology.type = "smallworld" -> generateSmallWorld(topology)
                      [] topology.type = "hourglass" -> generateHourglass(topology)
                      [] OTHER -> ReturnAtOnce(topology, EmptyTopologyResult)
    /\ callee' = "generateTopology"
    /\ UNCHANGED << catalogVars, lastFunnel, name, cocoonCount >>

\* Generators.generateTopology(topologyName, cocoonCount, structure), called
\* on its own
generateTopology == generateTopologyCall /\ UNCHANGED appVars

----------------------------------------------------------------------------
(* The caller *)

\* the caller has taken the result (or caught the error): the frame of the
\* call is gone
EndCall ==
    /\ pc = "done"
    /\ Frame("idle", NoConfig, NoResult, "none")
    /\ callee' = "none"
    /\ lastFunnel' = IF config.type = "funnel" /\ outcome = "returned"
                     THEN [ seen |-> TRUE, rnd |-> rnd, value |-> result ]
                     ELSE lastFunnel
    /\ rnd' = [ k \in 1 .. MaxPeriod |-> 0 ]
    /\ rndPos' = 0
    /\ UNCHANGED << catalogVars, name, cocoonCount >>

\* the caller of a call made on its own
finish == EndCall /\ UNCHANGED appVars

----------------------------------------------------------------------------
Next ==
    \/ generateTopology
    \/ funnelLayer
    \/ funnelNode
    \/ onionLayer
    \/ onionNode
    \/ smallWorldNode
    \/ smallWorldEdge
    \/ smallWorldRewire
    \/ hourglassLayer
    \/ hourglassNode
    \/ generateInternalStructure
    \/ sphereNode
    \/ sphereEdge
    \/ randomNode
    \/ randomEdge
    \/ finish

Spec == Init /\ [][Next]_vars

\* A call runs to completion on the JavaScript thread: a step that can be
\* taken is taken.  The draws are fair: in the while loop a draw that leaves
\* the loop, when there is one, is eventually made.
FairSpec == Spec /\ WF_vars(Next) /\ WF_vars(rewireExit)

----------------------------------------------------------------------------
(* NCXLoader: JavaScript values *)

\* object[f], undefined for a field the object does not have
Field(object, f) == IF f \in DOMAIN object THEN object[f] ELSE Undefined

\* array[k] of a 0-based array of numbers, undefined outside the array
Elem(array, k) == IF k + 1 \in DOMAIN array THEN array[k + 1] ELSE Undefined

\* value || fallback for a number or undefined: 0, NaN and undefined are falsy
OrElse(value, fallback) ==
    IF value \in { 0, NaN, Undefined } THEN fallback ELSE value

\* the characters of the compact connection strings
Chars == { "0", "1", ":", ";", " " }

Digits == { "0", "1" }

DigitValue(c) == IF c = "1" THEN 1 ELSE 0

\* str.split(sep): the pieces between the separators, one more than there
\* are separators
RECURSIVE Split(_, _)
Split(str, sep) ==
    IF \A k \in DOMAIN str : str[k] # sep
    THEN << str >>
    ELSE LET first == CHOOSE k \in DOMAIN str :
                          /\ str[k] = sep
                          /\ \A m \in 1 .. (k - 1) : str[m] # sep
         IN  << SubSeq(str, 1, first - 1) >>
                 \o Split(SubSeq(str, first + 1, Len(str)), sep)

\* str with its leading white space removed
RECURSIVE TrimStart(_)
TrimStart(str) ==
    IF str # << >> /\ Head(str) = " " THEN TrimStart(Tail(str)) ELSE str

\* str.trim()
RECURSIVE Trim(_)
Trim(str) ==
    IF str # << >> /\ str[Len(str)] = " "
    THEN Trim(SubSeq(str, 1, Len(str) - 1))
    ELSE TrimStart(str)

\* the value of the longest prefix of digits, acc being the value so far
RECURSIVE DigitRun(_, _)
DigitRun(str, acc) ==
    IF str # << >> /\ Head(str) \in Digits
    THEN DigitRun(Tail(str), 10 * acc + DigitValue(Head(str)))
    ELSE acc

\* parseInt(str): white space is skipped, then the digits are read; NaN when
\* there is no digit; parseInt(undefined) is NaN
parseInt(str) ==
    IF str = << "undefined" >> THEN NaN
    ELSE LET s == TrimStart(str)
         IN  IF s # << >> /\ Head(s) \in Digits THEN DigitRun(s, 0) ELSE NaN

\* parseFloat(str) in hundredths: these strings have no decimal point
parseFloat(str) == IF parseInt(str) = NaN THEN NaN ELSE 100 * parseInt(str)

\* parts[k], the string "undefined" standing for undefined
Part(parts, k) == IF k + 1 \in DOMAIN parts THEN parts[k + 1] ELSE << "undefined" >>

----------------------------------------------------------------------------
(* NCXLoader: processNCXData *)

\* NCXLoader.parseCompactConnections(str)
parseCompactConnections(str) ==
    LET pieces == SelectSeq(Split(str, ";"), LAMBDA s : Trim(s) # << >>)
        conn(s) ==
            LET parts == Split(s, ":")
            IN  [ from |-> parseInt(Part(parts, 0)),
                  to |-> parseInt(Part(parts, 1)),
                  weight |-> IF Part(parts, 2) \notin { << >>, << "undefined" >> }
                             THEN parseFloat(Part(parts, 2)) ELSE 100 ]
    IN  [ k \in DOMAIN pieces |-> conn(pieces[k]) ]

\* the connections of the document in object form.  A document holds
\* [ str |-> characters ] for a string and [ items |-> elements ] for an
\* array; an element is [ arr |-> numbers ] for an array and a record of its
\* fields for an object.
NormalConnections(raw) ==
    IF "str" \in DOMAIN raw
    THEN parseCompactConnections(raw.str)
    ELSE IF raw.items # << >> /\ "arr" \in DOMAIN raw.items[1]
    THEN [ k \in DOMAIN raw.items |->
             LET arr == raw.items[k].arr
             IN  [ from |-> Elem(arr, 0),
                   to |-> Elem(arr, 1),
                   weight |-> IF Elem(arr, 2) # Undefined THEN Elem(arr, 2) ELSE 100 ] ]
    ELSE [ k \in DOMAIN raw.items |->
             [ from |-> Field(raw.items[k], "from"),
               to |-> Field(raw.items[k], "to"),
               weight |-> Field(raw.items[k], "weight") ] ]

\* the document is rejected: !data.cocoons || !data.connections (an empty
\* string is falsy, an empty array is not)
Rejected(d) ==
    \/ "cocoons" \notin DOMAIN d
    \/ "connections" \notin DOMAIN d
    \/ ("str" \in DOMAIN d.connections /\ d.connections.str = << >>)

\* the ids of the cocoons of the document
CocoonIdsOf(cocoons) == { Field(cocoons[k], "id") : k \in DOMAIN cocoons }

\* mutation of IdToIndex: an id that was never set reads as index 0
IdToIndexOrZero(cocoons, id) ==
    IF id \in CocoonIdsOf(cocoons)
    THEN (CHOOSE k \in DOMAIN cocoons :
             /\ Field(cocoons[k], "id") = id
             /\ \A m \in DOMAIN cocoons : Field(cocoons[m], "id") = id => m <= k) - 1
    ELSE 0

\* idToIndex.get(id) after the forEach: the index set last for the id,
\* undefined for an id that was never set
IdToIndex(cocoons, id) ==
    IF id \in CocoonIdsOf(cocoons)
    THEN (CHOOSE k \in DOMAIN cocoons :
             /\ Field(cocoons[k], "id") = id
             /\ \A m \in DOMAIN cocoons : Field(cocoons[m], "id") = id => m <= k) - 1
    ELSE Undefined

SeedTypeNames == << "sensor", "processor", "memory", "modulator" >>

\* NCXLoader.getSeedTypeName(seedId): types[seedId] || 'processor'
getSeedTypeName(seedId) ==
    IF seedId + 1 \in DOMAIN SeedTypeNames THEN SeedTypeNames[seedId + 1] ELSE "processor"

\* seed?.name || this.getSeedTypeName(cocoon.seedId), the seed being
\* data.seeds?.find(s => s.id === cocoon.seedId)
CocoonType(d, cocoon) ==
    LET seeds == IF "seeds" \in DOMAIN d THEN d.seeds ELSE << >>
        found == { k \in DOMAIN seeds : seeds[k].id = cocoon.seedId }
        seed == seeds[CHOOSE k \in found : \A m \in found : k <= m]
    IN  IF found # { } /\ seed.name # ""
        THEN seed.name
        ELSE getSeedTypeName(cocoon.seedId)

\* the network built from the document
Network(d) ==
    LET conns == NormalConnections(d.connections)
        kept == SelectSeq(conns, LAMBDA c :
                    /\ IdToIndex(d.cocoons, c.from) # Undefined
                    /\ IdToIndex(d.cocoons, c.to) # Undefined)
    IN  [ positions |-> [ k \in DOMAIN d.cocoons |->
                            [ x |-> d.cocoons[k].position[1],
                              y |-> d.cocoons[k].position[2],
                              z |-> d.cocoons[k].position[3] ] ],
          connections |-> [ k \in DOMAIN kept |->
                            [ from |-> IdToIndex(d.cocoons, kept[k].from),
                              to |-> IdToIndex(d.cocoons, kept[k].to),
                              weight |-> OrElse(kept[k].weight, 100) ] ],
          types |-> [ k \in DOMAIN d.cocoons |-> CocoonType(d, d.cocoons[k]) ],
          ncxData |-> d ]

\* the experiment processNCXData stores and returns
Experiment(d) ==
    [ network |-> Network(d),
      history |-> IF "history" \in DOMAIN d THEN d.history ELSE << >>,
      cocoons |-> d.cocoons,
      connections |-> NormalConnections(d.connections) ]

\* NCXLoader.processNCXData(data): a rejected document throws before any
\* assignment
processNCXData(d) ==
    /\ IF Rejected(d)
       THEN UNCHANGED << currentExperiment, currentTimestep >>
       ELSE /\ currentExperiment' = Experiment(d)
            /\ currentTimestep' = IF Experiment(d).history # << >>
                                  THEN Experiment(d).history[1].timestep
                                  ELSE 0
    /\ UNCHANGED << genVars, data, isPlaying, playbackInterval, timers, stopUpdates,
                    viewerVars, rendererVars >>

----------------------------------------------------------------------------
(* NCXLoader: timeline and playback *)

\* history.findIndex(h => h.timestep === t): 0-based, -1 when there is none
FindIndex(history, t) ==
    LET found == { k \in DOMAIN history : history[k].timestep = t }
    IN  IF found = { } THEN -1
        ELSE (CHOOSE k \in found : \A m \in found : k <= m) - 1

\* NCXLoader.stepForward(): the value returned and the timestep afterwards
StepForward(experiment, t) ==
    IF experiment = NullObject \/ experiment.history = << >>
    THEN [ ok |-> FALSE, timestep |-> t ]
    ELSE LET currentIdx == FindIndex(experiment.history, t)
         IN  IF currentIdx < Len(experiment.history) - 1
             THEN [ ok |-> TRUE, timestep |-> experiment.history[currentIdx + 2].timestep ]
             ELSE [ ok |-> FALSE, timestep |-> t ]

\* NCXLoader.stepBackward(): the value returned and the timestep afterwards
StepBackward(experiment, t) ==
    IF experiment = NullObject \/ experiment.history = << >>
    THEN [ ok |-> FALSE, timestep |-> t ]
    ELSE LET currentIdx == FindIndex(experiment.history, t)
         IN  IF currentIdx > 0
             THEN [ ok |-> TRUE, timestep |-> experiment.history[currentIdx].timestep ]
             ELSE [ ok |-> FALSE, timestep |-> t ]

\* NCXLoader.getTimestepRange()
getTimestepRange ==
    IF currentExperiment = NullObject \/ currentExperiment.history = << >>
    THEN [ min |-> 0, max |-> 0 ]
    ELSE LET timesteps == { currentExperiment.history[k].timestep :
                              k \in DOMAIN currentExperiment.history }
         IN  [ min |-> CHOOSE t \in timesteps : \A u \in timesteps : t <= u,
               max |-> CHOOSE t \in timesteps : \A u \in timesteps : u <= t ]

\* the handle setInterval or requestAnimationFrame returns: one that no live
\* callback has and that is not the one stored
NewHandle(live, stored) ==
    CHOOSE n \in 1 .. (Cardinality(live) + 2) :
        /\ n \notin live \cup { stored }
        /\ \A m \in 1 .. (n - 1) : m \in live \cup { stored }

\* mutation of clearInterval: the timer keeps running
clearIntervalNot(id) == timers

\* clearInterval(id): the set of live timers afterwards
clearInterval(id) == timers \ { id }

\* stepForward() of app.js
stepForward ==
    /\ currentTimestep' = StepForward(currentExperiment, currentTimestep).timestep
    /\ UNCHANGED << genVars, data, currentExperiment, isPlaying, playbackInterval,
                    timers, stopUpdates, viewerVars, rendererVars >>

\* stepBackward() of app.js
stepBackward ==
    /\ currentTimestep' = StepBackward(currentExperiment, currentTimestep).timestep
    /\ UNCHANGED << genVars, data, currentExperiment, isPlaying, playbackInterval,
                    timers, stopUpdates, viewerVars, rendererVars >>

\* NCXLoader.seekTo(timestep); the timestep is a number already, which
\* parseInt returns as it is
seekTo(timestep) ==
    /\ currentTimestep' = IF currentExperiment = NullObject
                          THEN currentTimestep
                          ELSE timestep
    /\ UNCHANGED << genVars, data, currentExperiment, isPlaying, playbackInterval,
                    timers, stopUpdates, viewerVars, rendererVars >>

\* seekTimeline(value) of app.js: the value of the timeline slider, whose
\* min and max renderExperiment set from getTimestepRange()
seekTimeline ==
    \E value \in getTimestepRange.min .. getTimestepRange.max : seekTo(value)

\* NCXLoader.togglePlayback(onUpdate)
togglePlayback ==
    /\ isPlaying' = ~ isPlaying
    /\ IF isPlaying'
       THEN /\ playbackInterval' = NewHandle(timers, playbackInterval)
            /\ timers' = timers \cup { playbackInterval' }
            /\ stopUpdates' = 0
       ELSE /\ timers' = clearInterval(playbackInterval)
            /\ UNCHANGED << playbackInterval, stopUpdates >>
    /\ UNCHANGED << genVars, data, currentExperiment, currentTimestep,
                    viewerVars, rendererVars >>

\* NCXLoader.stopPlayback()
stopPlayback ==
    /\ isPlaying' = FALSE
    /\ timers' = clearInterval(playbackInterval)
    /\ UNCHANGED << genVars, data, currentExperiment, currentTimestep, playbackInterval,
                    stopUpdates, viewerVars, rendererVars >>

\* the callback of a live interval timer runs
playbackTick ==
    /\ timers # { }
    /\ LET step == StepForward(currentExperiment, currentTimestep)
       IN  IF ~ step.ok
           THEN /\ isPlaying' = FALSE
                /\ timers' = clearInterval(playbackInterval)
                /\ stopUpdates' = stopUpdates + 1
                /\ UNCHANGED currentTimestep
           ELSE /\ currentTimestep' = step.timestep
                /\ UNCHANGED << isPlaying, timers, stopUpdates >>
    /\ UNCHANGED << genVars, data, currentExperiment, playbackInterval,
                    viewerVars, rendererVars >>

\* the documents of the playback model: no cocoon, a history
HistoryInputs ==
    { [ cocoons |-> << >>, connections |-> [ items |-> << >> ] ] } \cup
    { [ cocoons |-> << >>, connections |-> [ items |-> << >> ], history |-> h ] :
        h \in UNION { [ 1 .. n -> [ timestep : 0 .. MaxTimestep ] ] : n \in 0 .. MaxHistory } }

\* a document is handed to NCXLoader.processNCXData
loadHistory == \E d \in HistoryInputs : processNCXData(d)

\* no generator call, empty catalogs
NoGenerator ==
    /\ topologies = << >>
    /\ structures = << >>
    /\ typeNames = TypeNameList
    /\ name = "doesnotexist"
    /\ cocoonCount = 0
    /\ NoCall

LoaderSpecInit ==
    /\ NoGenerator
    /\ data = NullObject
    /\ LoaderInit
    /\ ViewerInit
    /\ RendererInit

LoaderNext ==
    \/ loadHistory
    \/ stepForward
    \/ stepBackward
    \/ seekTimeline
    \/ togglePlayback
    \/ stopPlayback
    \/ playbackTick

LoaderSpec == LoaderSpecInit /\ [][LoaderNext]_vars

----------------------------------------------------------------------------
(* NCXLoader: the documents of the network model: every list of cocoons    *)
(* with every form of connections, without seeds; with seeds and without   *)
(* connections; without one of the two required fields                     *)

\* sequences over S of length lo..hi
SeqsOf(S, lo, hi) == UNION { [ 1 .. n -> S ] : n \in lo .. hi }

\* the cocoons of a document: the id is 0, 1 or absent
CocoonInputs ==
    LET bodies == { [ position |-> << 0, 0, 0 >>, seedId |-> 0 ],
                    [ position |-> << 1, 2, 3 >>, seedId |-> 4 ] }
    IN  bodies \cup
        { [ id |-> n, position |-> b.position, seedId |-> b.seedId ] :
            n \in { 0, 1 }, b \in bodies }

\* a connection as an object and the same connection as an array
ConnObjects ==
    [ from : { 0, 1 }, to : { 0, 1 } ] \cup [ from : { 0, 1 }, to : { 0, 1 }, weight : { 50 } ]

ConnArrays ==
    { [ arr |-> a ] : a \in SeqsOf({ 0, 1 }, 1, 2) } \cup
    { [ arr |-> a \o << 50 >> ] : a \in SeqsOf({ 0, 1 }, 2, 2) }

ConnectionInputs ==
    { [ items |-> s ] : s \in SeqsOf(ConnObjects, 0, MaxConnsIn) } \cup
    { [ items |-> s ] : s \in SeqsOf(ConnArrays, 1, MaxConnsIn) } \cup
    { [ str |-> s ] : s \in SeqsOf(Chars, 0, MaxStrLen) }

\* data.seeds of the documents that have seeds
SeedInputs == << [ id |-> 0, name |-> "custom" ] >>

\* NCXLoader.loadFromFile(file): the document of the file is processed
loadFromFile == processNCXData(data)

NCXSpecInit ==
    /\ NoGenerator
    /\ \/ \E c \in SeqsOf(CocoonInputs, 0, MaxCocoonsIn) :
             \/ \E n \in ConnectionInputs : data = [ cocoons |-> c, connections |-> n ]
             \/ data = [ cocoons |-> c, connections |-> [ items |-> << >> ],
                         seeds |-> SeedInputs ]
             \/ data = [ cocoons |-> c ]
       \/ \E n \in ConnectionInputs : data = [ connections |-> n ]
    /\ LoaderInit
    /\ ViewerInit
    /\ RendererInit

NCXNext == loadFromFile

NCXSpec == NCXSpecInit /\ [][NCXNext]_vars

----------------------------------------------------------------------------
(* InternalViewer *)

\* cocoons.find(c => c.id === cocoonId): the cocoons found, none or the first
FindCocoon(cocoons, id) ==
    LET found == { k \in DOMAIN cocoons : Field(cocoons[k], "id") = id }
    IN  IF found = { } THEN { }
        ELSE { cocoons[CHOOSE k \in found : \A m \in found : k <= m] }

\* InternalViewer.getCocoonData(cocoonId): the cocoon returned, none for
\* undefined and null
getCocoonData(id) ==
    IF currentExperiment # NullObject
    THEN FindCocoon(currentExperiment.cocoons, id)
    ELSE IF currentNetwork # NullObject /\ "ncxData" \in DOMAIN currentNetwork
    THEN FindCocoon(currentNetwork.ncxData.cocoons, id)
    ELSE { }

\* InternalViewer.animate(), pending being the callbacks that wait when it
\* is called; its test reads the isOpen the caller has set
animateFrom(pending) ==
    IF ~ isOpen'
    THEN /\ frames' = pending
         /\ UNCHANGED animationId
    ELSE /\ animationId' = NewHandle(pending, animationId)
         /\ frames' = pending \cup { animationId' }

\* InternalViewer.open(cocoonId)
open(id) ==
    /\ Cardinality(frames) < MaxFrames
    /\ currentCocoonId' = id
    /\ isOpen' = TRUE
    /\ IF getCocoonData(id) = { }
       THEN UNCHANGED << modalDisplay, animationId, frames >>
       ELSE /\ modalDisplay' = "flex"
            /\ animateFrom(frames)
    /\ UNCHANGED << genVars, loaderVars, rendererVars >>

\* Renderer.onDoubleClick(event): a cocoon mesh is hit; its cocoonId is its
\* index
onDoubleClick == \E id \in 0 .. MaxCocoonsIn : open(id)

\* InternalViewer.close()
close ==
    /\ modalDisplay' = "none"
    /\ isOpen' = FALSE
    /\ currentCocoonId' = Null
    /\ IF animationId # Null
       THEN /\ frames' = frames \ { animationId }
            /\ animationId' = Null
       ELSE UNCHANGED << animationId, frames >>
    /\ UNCHANGED << genVars, loaderVars, rendererVars >>

\* a pending animation-frame callback runs: () => this.animate()
animationFrame ==
    /\ UNCHANGED << isOpen, currentCocoonId, modalDisplay, genVars, loaderVars,
                    rendererVars >>
    /\ \E f \in frames : animateFrom(frames \ { f })

\* the documents of the viewer model: cocoons, no connection
ViewerInputs ==
    { [ cocoons |-> c, connections |-> [ items |-> << >> ] ] :
        c \in SeqsOf(CocoonInputs, 0, MaxCocoonsIn) }

\* an experiment is loaded
loadCocoons == \E d \in ViewerInputs : processNCXData(d)

ViewerSpecInit ==
    /\ NoGenerator
    /\ data = NullObject
    /\ LoaderInit
    /\ ViewerInit
    /\ RendererInit

ViewerNext ==
    \/ loadCocoons
    \/ onDoubleClick
    \/ close
    \/ animationFrame

ViewerSpec == ViewerSpecInit /\ [][ViewerNext]_vars

----------------------------------------------------------------------------
(* Renderer and regenerate() *)

\* a network object: the value a generator returned and the serial number
\* that tells the object from every other object of the same value
NetworkObject(value, serial) == [ network |-> value, serial |-> serial ]

\* the serial number of a new object: one that neither the current network
\* nor a particle refers to
NewSerial ==
    LET used == { flowParticles[k].serial : k \in DOMAIN flowParticles } \cup
                { IF currentNetwork = NullObject THEN 0 ELSE currentNetwork.serial }
    IN  CHOOSE n \in 1 .. (Cardinality(used) + 1) :
            /\ n \notin used
            /\ \A k \in 1 .. (n - 1) : k \in used

\* Math.ceil(1 + conn.weight * 2) for a weight in hundredths; no particle
\* for NaN
NumParticles(weight) == IF weight = NaN THEN 0 ELSE 1 + ((weight + 49) \div 50)

\* the particles createNeuralFlowParticles() adds for the network object
\* net: per connection with both ends below positions.length, in order
NeuralFlowParticles(net) ==
    IF net = NullObject THEN << >>
    ELSE LET conns == net.network.connections
             size == Len(net.network.positions)
         IN  Flatten([ k \in DOMAIN conns |->
                 IF conns[k].from >= size \/ conns[k].to >= size
                 THEN << >>
                 ELSE [ p \in 1 .. Max(NumParticles(conns[k].weight), 0) |->
                          [ serial |-> net.serial, connIdx |-> k - 1, p |-> p - 1 ] ] ])

\* mutation of ClearedParticles: clear() leaves the particles in place
ClearedParticlesKept(particles) == particles

\* Renderer.clear(): the flowParticles array afterwards
ClearedParticles(particles) == << >>

\* Renderer.toggleFlow(enabled) on the network object net with the
\* particles given: the flowParticles array afterwards
ToggledParticles(enabled, net, particles) ==
    IF enabled THEN particles \o NeuralFlowParticles(net) ELSE << >>

\* regenerate() up to the return of its call of generateTopology: a known
\* topology, the two saved states, the call
regenerate ==
    /\ getTopology(name) # { }
    /\ generateTopologyCall
    /\ wasFlowEnabled' = showFlow
    /\ wasAutoRotate' = autoRotate
    /\ UNCHANGED << loaderVars, viewerVars, showFlow, autoRotate, currentNetwork,
                    flowParticles >>

\* regenerate() from the return of generateTopology: renderTopology(network),
\* the flow restored if it was enabled, the rotation restored
regenerateRender ==
    /\ outcome = "returned"
    /\ EndCall
    /\ LET rendered == NetworkObject(result, NewSerial)
       IN  /\ currentNetwork' = rendered
           /\ showFlow' = IF wasFlowEnabled THEN TRUE ELSE showFlow
           /\ flowParticles' =
                  IF wasFlowEnabled
                  THEN ToggledParticles(TRUE, rendered, ClearedParticles(flowParticles))
                  ELSE ClearedParticles(flowParticles)
    /\ autoRotate' = wasAutoRotate
    /\ UNCHANGED << loaderVars, viewerVars, wasFlowEnabled, wasAutoRotate >>

\* the TypeError of generateTopology leaves regenerate()
regenerateThrow ==
    /\ outcome = "threw"
    /\ EndCall
    /\ UNCHANGED appVars

\* toggleFlow() of app.js: Renderer.toggleFlow(!Renderer.showFlow)
toggleFlow ==
    /\ pc = "idle"
    /\ showFlow' = ~ showFlow
    /\ flowParticles' = ToggledParticles(~ showFlow, currentNetwork, flowParticles)
    /\ UNCHANGED << genVars, loaderVars, viewerVars, autoRotate, currentNetwork,
                    wasFlowEnabled, wasAutoRotate >>

\* toggleAutoRotate() of app.js
toggleAutoRotate ==
    /\ pc = "idle"
    /\ autoRotate' = ~ autoRotate
    /\ UNCHANGED << genVars, loaderVars, viewerVars, showFlow, currentNetwork,
                    flowParticles, wasFlowEnabled, wasAutoRotate >>

\* the topologies of the demo: one of each generator (the small world
\* without rewiring), one without generator record
DemoCatalogs ==
    { [ n \in { c.type } |-> c ] :
        c \in { BaseConfig("funnel"), BaseConfig("onion"), BaseConfig("hourglass"),
                BaseConfig("smallworld"),
                [ BaseConfig("funnel") EXCEPT !.missing = { "generator" } ] } }

RenderSpecInit ==
    /\ topologies \in DemoCatalogs
    /\ structures = << >>
    /\ typeNames = TypeNameList
    /\ name \in DOMAIN topologies
    /\ cocoonCount \in 2 .. MaxDemoCount
    /\ NoCall
    /\ data = NullObject
    /\ LoaderInit
    /\ ViewerInit
    /\ RendererInit

RenderNext ==
    \/ regenerate
    \/ funnelLayer
    \/ funnelNode
    \/ onionLayer
    \/ onionNode
    \/ smallWorldNode
    \/ smallWorldEdge
    \/ hourglassLayer
    \/ hourglassNode
    \/ regenerateRender
    \/ regenerateThrow
    \/ toggleFlow
    \/ toggleAutoRotate

RenderSpec == RenderSpecInit /\ [][RenderNext]_vars

----------------------------------------------------------------------------
(* Properties *)

\* every connection of conns joins two of n nodes
ValidEdges(conns, n) ==
    \A k \in DOMAIN conns :
        /\ conns[k].from \in 0 .. (n - 1)
        /\ conns[k].to \in 0 .. (n - 1)

Returned == pc = "done" /\ outcome = "returned"

\* C1 (index validity): in every generator, for every node count and every
\* outcome of the draws, each connection has from and to in
\* [0, positions.length), when it is emitted and in the returned result.
C1_IndexValidity ==
    /\ ValidEdges(connections, Len(positions))
    /\ Returned => ValidEdges(result.connections, Len(result.positions))

\* a small-world call has returned a network with a connection that runs
\* backwards (wrapped around the ring or rewired)
C1_Witness ==
    /\ Returned
    /\ config.type = "smallworld"
    /\ config.rewirePct > 0
    /\ Len(result.connections) >= 4
    /\ \E k \in DOMAIN result.connections :
          result.connections[k].to < result.connections[k].from

\* C2 (parallel arrays): in the four topology generators types and positions
\* have the same length after every appended node and in the returned result.
C2_ParallelArrays ==
    callee = "generateTopology" =>
        /\ Len(types) = Len(positions)
        /\ Returned => Len(result.types) = Len(result.positions)

\* an hourglass call is in the middle of a layer with at least three nodes built
C2_Witness ==
    /\ pc = "hourglass_node"
    /\ Len(positions) >= 3
    /\ i >= 1

\* C3 (layer partition): in the funnel, onion and hourglass generators the
\* lists layerCocoonIds, read in layer order, are exactly 0, 1, ...,
\* positions.length - 1, the node with id k is positions[k] and lies in the
\* layer of its list, and a returned call has built one list per layer.
C3_LayerPartition ==
    (callee = "generateTopology" /\ config.type \in { "funnel", "onion", "hourglass" }) =>
        /\ Flatten(layerCocoonIds) = [ k \in 1 .. Len(positions) |-> k - 1 ]
        /\ \A l \in DOMAIN layerCocoonIds :
              \A m \in DOMAIN layerCocoonIds[l] :
                  positions[layerCocoonIds[l][m] + 1].layer = l - 1
        /\ (Returned /\ config.numLayers # NaN) => Len(layerCocoonIds) = config.numLayers

\* a funnel call has returned three layers, the second with several nodes
C3_Witness ==
    /\ Returned
    /\ config.type = "funnel"
    /\ Len(layerCocoonIds) = 3
    /\ Len(layerCocoonIds[2]) >= 2
    /\ Len(layerCocoonIds[3]) >= 2

\* the name has no catalog record, or its generator.type is none of the four
UnknownTopology ==
    \/ name \notin DOMAIN topologies
    \/ /\ "generator" \notin topologies[name].missing
       /\ topologies[name].type \notin { "funnel", "onion", "smallworld", "hourglass" }

C5_SingleLayer ==
    ( /\ Returned
      /\ callee = "generateTopology"
      /\ config.type \in { "funnel", "hourglass" }
      /\ config.missing = {}
      /\ config.numLayers = 1 ) =>
        /\ Len(result.positions) = cocoonCount
        /\ \A k \in DOMAIN result.positions : result.positions[k].layer = 0
        /\ result.connections = << >>

\* number of nodes of layer l in a list of positions
LayerSize(ps, l) == Cardinality({ k \in DOMAIN ps : ps[k].layer = l })

\* C6 (funnel layer sizes): for numLayers >= 2 and targetCount >= 1 layer L
\* of the returned funnel has max(1, floor(1 + (targetCount-1) * (L/(numLayers-1))^2))
\* nodes: layer 0 has one node, the last layer targetCount nodes; the total is
\* not clamped (3 layers and targetCount 10 give 1, 3, 10, 14 nodes in all).
C6_FunnelLayerSizes ==
    ( /\ Returned
      /\ callee = "generateTopology"
      /\ config.type = "funnel"
      /\ config.missing = {}
      /\ config.numLayers >= 2
      /\ cocoonCount >= 1 ) =>
        LET n == config.numLayers
            t == cocoonCount
            ps == result.positions
        IN /\ \A l \in 0 .. (n - 1) :
                 LayerSize(ps, l) = Max(1, 1 + ((t - 1) * l * l) \div ((n - 1) * (n - 1)))
           /\ LayerSize(ps, 0) = 1
           /\ LayerSize(ps, n - 1) = t
           /\ \A k \in DOMAIN ps : ps[k].layer \in 0 .. (n - 1)
           /\ (n = 3 /\ t = 10) =>
                 /\ LayerSize(ps, 1) = 3
                 /\ Len(ps) = 14

\* the funnel of 3 layers for targetCount 10 has been returned
C6_Witness ==
    /\ Returned
    /\ config.type = "funnel"
    /\ config.numLayers = 3
    /\ cocoonCount = 10
    /\ Len(result.positions) > cocoonCount

\* C7 (ring lattice): with rewireProb = 0 the small-world generator returns
\* exactly cocoonCount * floor(k/2) connections: for node i = 0, 1, ... and
\* j = 1..floor(k/2), in this order, the edge from i to (i+j) mod cocoonCount
\* of weight 0.7; layers is 1.
C7_RingLattice ==
    ( /\ Returned
      /\ callee = "generateTopology"
      /\ config.type = "smallworld"
      /\ config.rewirePct = 0 ) =>
        LET half == config.kNeighbors \div 2
        IN /\ result.connections =
                [ m \in 1 .. (cocoonCount * half) |->
                    [ from |-> (m - 1) \div half,
                      to |-> (((m - 1) \div half) + ((m - 1) % half) + 1) % cocoonCount,
                      weight |-> 70 ] ]
           /\ Len(result.connections) = cocoonCount * half
           /\ result.layers = 1

\* a ring of ten nodes with k = 4 and no rewiring has been returned
C7_Witness ==
    /\ Returned
    /\ config.type = "smallworld"
    /\ config.rewirePct = 0
    /\ config.kNeighbors = 4
    /\ cocoonCount = 10
    /\ Len(result.connections) = 20

\* C8 (node tags): for nodeCount >= 16 the sphere-surface and the random-graph
\* generator tag exactly the nodes 0..7 "input", exactly the nodes
\* nodeCount-8..nodeCount-1 "output" and every other node "internal"; with
\* nodeCount = 16 no node is internal.
C8_NodeTags ==
    ( /\ Returned
      /\ callee = "generateInternalStructure"
      /\ name \in DOMAIN structures
      /\ cocoonCount >= 16 ) =>
        LET ps == result.positions
            Tagged(tag) == { k - 1 : k \in { m \in DOMAIN ps : ps[m].type = tag } }
        IN /\ Len(ps) = cocoonCount
           /\ Tagged("input") = 0 .. 7
           /\ Tagged("output") = (cocoonCount - 8) .. (cocoonCount - 1)
           /\ Tagged("internal") = 8 .. (cocoonCount - 9)
           /\ cocoonCount = 16 => Tagged("internal") = {}

\* a sphere of sixteen nodes has been returned
C8_Witness ==
    /\ Returned
    /\ config.nodeDistribution = "fibonacci_sphere"
    /\ cocoonCount = 16
    /\ Len(result.positions) = 16

\* the (from, to) pairs of a list of connections
Pairs(conns) == [ k \in DOMAIN conns |-> << conns[k].from, conns[k].to >> ]

\* C9 (funnel determinism): a funnel call returns the same positions.length,
\* types.length, layers, (from, to) pairs and types as the funnel call before
\* it with the same config and targetCount, whatever the draws of the two calls.
C9_FunnelDeterminism ==
    (Returned /\ config.type = "funnel" /\ lastFunnel.seen) =>
        /\ Len(result.positions) = Len(lastFunnel.value.positions)
        /\ Len(result.types) = Len(lastFunnel.value.types)
        /\ result.layers = lastFunnel.value.layers
        /\ Pairs(result.connections) = Pairs(lastFunnel.value.connections)
        /\ result.types = lastFunnel.value.types

\* a second funnel call has returned connections under another stream of draws
C9_Witness ==
    /\ Returned
    /\ config.type = "funnel"
    /\ lastFunnel.seen
    /\ lastFunnel.rnd # rnd
    /\ Len(result.connections) >= 3

\* C10 (permissive malformed input), as claimed: a call whose catalog record
\* lacks a field never ends in a thrown error.
C10_NeverThrows ==
    (callee # "none" /\ config.missing # {}) => outcome # "threw"

\* C11: termination.  Every call that has started ends (pc = "done"), under
\* fair draws, for every node count >= 0, every kNeighbors >= 0 and every
\* rewireProb; in particular the while loop that redraws a rewired target
\* until it differs from i is left.
C11_Termination == (pc # "idle") ~> (pc = "done")

\* C12: no mutation, fresh results.  No step changes a topology record, a
\* structure record or the type names; a call starts with newly created,
\* empty positions, connections, types and layer lists, so what it returns
\* holds only what it pushed itself; and the result of the funnel call before
\* (lastFunnel, kept by the caller) is not altered while a later call runs.
C12_NoMutationFresh ==
    [][ /\ UNCHANGED catalogVars
        /\ (pc = "idle" /\ pc' # "idle") =>
              /\ positions' = << >>
              /\ connections' = << >>
              /\ types' = << >>
              /\ layerCocoonIds' = << >>
        /\ pc # "done" => lastFunnel' = lastFunnel ]_vars

\* a later call is adding nodes and connections while the caller holds the
\* non-empty result of an earlier call
C12_Witness ==
    /\ lastFunnel.seen
    /\ Len(lastFunnel.value.connections) > 0
    /\ pc = "funnel_node"
    /\ Len(connections) > 0

\* C13: explicit-input purity.  The result of generateTopology(name, count)
\* depends on the arguments and the draws only, not on the contents of
\* DataManager.topologies: it equals the result the same call, with the same
\* draws, returns under every other catalog.  Under a catalog without a
\* record for the name (the catalog before loadAll is one) that result is the
\* empty one, whatever the draws.
C13_ExplicitInputPurity ==
    (Returned /\ callee = "generateTopology") =>
        \A other \in TopologyCatalogs :
            name \notin DOMAIN other => result = EmptyTopologyResult

\* the connections into node id, in the order of their emission
Incoming(conns, id) == SelectSeq(conns, LAMBDA e : e.to = id)

\* the fall of the weight per predecessor, in hundredths
WeightStep == IF config.type = "funnel" THEN 20 ELSE 15

\* C14: layered fan-in.  In a returned funnel or hourglass network, node i
\* (0-based within its layer of count nodes) of a layer L >= 1 whose previous
\* layer has P >= 1 nodes has exactly min(3, P) incoming connections, the
\* c-th from previous-layer node number (floor(i*P/count) + c) mod P with
\* weight 1 - 0.2*c (funnel) or 1 - 0.15*c (hourglass); its sources are
\* pairwise distinct, lie in layer L-1 and have smaller ids; a node of layer
\* 0 has no incoming connection.
C14_LayeredFanIn ==
    (Returned /\ config.type \in { "funnel", "hourglass" }) =>
        \A L \in DOMAIN layerCocoonIds : \A n \in DOMAIN layerCocoonIds[L] :
            LET id == layerCocoonIds[L][n]
                count == Len(layerCocoonIds[L])
                inc == Incoming(result.connections, id)
            IN IF L = 1
               THEN inc = << >>
               ELSE LET prev == layerCocoonIds[L - 1]
                        P == Len(prev)
                    IN P >= 1 =>
                         /\ Len(inc) = Min(3, P)
                         /\ \A c \in DOMAIN inc :
                              /\ inc[c].from = prev[(((((n - 1) * P) \div count) + (c - 1)) % P) + 1]
                              /\ inc[c].weight = 100 - (c - 1) * WeightStep
                              /\ inc[c].from < inc[c].to
                              /\ result.positions[inc[c].from + 1].layer = L - 2
                         /\ \A c, d \in DOMAIN inc : c # d => inc[c].from # inc[d].from

\* an hourglass has returned in which a node has three predecessors, the
\* first of them not the first node of the previous layer, the last of them
\* reached by wrapping around the previous layer
C14_Witness ==
    /\ Returned
    /\ config.type = "hourglass"
    /\ \E L \in DOMAIN layerCocoonIds : \E n \in DOMAIN layerCocoonIds[L] :
         /\ L > 1
         /\ Len(layerCocoonIds[L - 1]) = 3
         /\ ((n - 1) * 3) \div Len(layerCocoonIds[L]) = 1
         /\ Len(Incoming(result.connections, layerCocoonIds[L][n])) = 3

\* C15: no self-loops.  For every node count >= 2 and every parameter value
\* no generator emits a connection with from = to, neither as a rewired edge
\* nor as a ring edge (i+j) mod cocoonCount.
C15_NoSelfLoops ==
    cocoonCount >= 2 => \A k \in DOMAIN connections : connections[k].from # connections[k].to

\* Math.round(p / q) for q > 0: the nearest integer, halves rounded up
RoundDiv(p, q) == (2 * p + q) \div (2 * q)

\* C16: hourglass layer sizes are a symmetric V.  In a returned hourglass with
\* numLayers >= 2 and midLayer = floor(numLayers/2), layer L has
\* round(centerCocoons + (endCocoons-centerCocoons) * |L-midLayer| / midLayer)
\* nodes, layer L and layer numLayers-1-L have the same size, layer 0 and the
\* last layer have endCocoons nodes and the middle layer has centerCocoons.
C16_HourglassV ==
    (Returned /\ config.type = "hourglass" /\ config.numLayers >= 2) =>
        LET n == config.numLayers
            midLayer == n \div 2
            e == config.endCocoons
            c == config.centerCocoons
            Abs(x) == IF x < 0 THEN -x ELSE x
            size(L) == LayerSize(result.positions, L)
        IN /\ \A L \in 0 .. n - 1 :
                /\ size(L) = RoundDiv(c * midLayer + (e - c) * Abs(L - midLayer), midLayer)
                /\ size(L) = size(n - 1 - L)
           /\ size(0) = e
           /\ size(n - 1) = e
           /\ size(midLayer) = c

\* the role of layer L of an hourglass of n layers, as C17 states it
HourglassRole(L, n) ==
    LET midLayer == n \div 2
    IN IF L = 0 THEN "input"
       ELSE IF L = n - 1 THEN "output"
       ELSE IF L < midLayer THEN "compress"
       ELSE IF L = midLayer THEN "center"
       ELSE "expand"

\* C17: hourglass role selection.  In a returned hourglass with numLayers >= 2
\* the nodes of layer 0 take their types from the role 'input', those of the
\* layers strictly between 0 and midLayer from 'compress', those of layer
\* midLayer from 'center', those of the layers strictly between midLayer and
\* the last from 'expand' and those of the last layer always from 'output';
\* node i of a layer gets the entry i mod listLength of the role's list.
C17_HourglassRoles ==
    (Returned /\ config.type = "hourglass" /\ config.numLayers >= 2) =>
        \A L \in DOMAIN layerCocoonIds : \A n \in DOMAIN layerCocoonIds[L] :
            LET list == config.typeDistribution[HourglassRole(L - 1, config.numLayers)]
            IN result.types[layerCocoonIds[L][n] + 1] = list[((n - 1) % Len(list)) + 1]

\* C18: small-world positional types.  In a returned small-world network,
\* whatever the draws, every node with index i < 0.1*cocoonCount is typed
\* 'sensor' and every node with index i >= 0.9*cocoonCount is typed
\* 'processor'; so when cocoonCount is a multiple of 10 there are
\* cocoonCount/10 forced sensors and as many forced processors.
C18_PositionalTypes ==
    (Returned /\ config.type = "smallworld") =>
        \A n \in DOMAIN result.types :
            /\ 10 * (n - 1) < cocoonCount => result.types[n] = "sensor"
            /\ 10 * (n - 1) >= 9 * cocoonCount => result.types[n] = "processor"

\* C19: overlapping tag ranges.  In a returned internal structure of
\* nodeCount < 16 nodes (sphere surface or random graph) a node lying in both
\* the range of the first 8 and the range of the last 8 indices carries the
\* tag 'output' (nodeCount = 10: the nodes 2..9).
C19_OverlapTags ==
    ( /\ Returned
      /\ callee = "generateInternalStructure"
      /\ name \in DOMAIN structures
      /\ cocoonCount < 16 ) =>
        \A n \in DOMAIN result.positions :
            (n - 1 < 8 /\ n - 1 >= cocoonCount - 8) => result.positions[n].type = "output"

\* C20: onion connectivity.  In every returned onion network each node has
\* at most one incoming connection, a node of layer 0 has none, the source
\* of a connection into a node of layer L is a node of layer L-1, its weight
\* is 0.8, and layer L holds max(1, floor(targetCount*(L+1)/10)) nodes.
C20_OnionConnectivity ==
    (Returned /\ config.type = "onion") =>
        LET ps == result.positions
            cs == result.connections
        IN /\ \A n \in DOMAIN ps :
                /\ Len(Incoming(cs, n - 1)) <= 1
                /\ ps[n].layer = 0 => Incoming(cs, n - 1) = << >>
           /\ \A k \in DOMAIN cs :
                /\ ps[cs[k].from + 1].layer = ps[cs[k].to + 1].layer - 1
                /\ cs[k].weight = 80
           /\ \A L \in 0 .. config.numLayers - 1 :
                LayerSize(ps, L) = Max(1, (cocoonCount * (L + 1)) \div 10)

\* an onion of three layers has returned whose layers 1 and 2 hold more than
\* one node each and in which a node of the outermost layer is connected
C20_Witness ==
    /\ Returned
    /\ config.type = "onion"
    /\ config.numLayers = 3
    /\ LayerSize(result.positions, 1) > 1
    /\ LayerSize(result.positions, 2) > 1
    /\ \E n \in DOMAIN result.positions :
         /\ result.positions[n].layer = 2
         /\ Len(Incoming(result.connections, n - 1)) = 1

\* C21: random types are known names.  In a returned onion network every
\* entry of types, and in a returned small-world network every entry that
\* was drawn (the node being neither a forced sensor nor a forced processor),
\* is one of the available type names, for a list of names of any size >= 1.
C21_KnownTypeNames ==
    (Returned /\ config.type \in { "onion", "smallworld" }) =>
        \A n \in DOMAIN result.types :
            ( \/ config.type = "onion"
              \/ ~ (10 * (n - 1) < cocoonCount \/ 10 * (n - 1) > 9 * cocoonCount) ) =>
                \E k \in DOMAIN typeNames : result.types[n] = typeNames[k]

\* C22: pairwise structure edges.  In a returned sphere-surface or
\* random-graph structure every connection has from < to and no two
\* connections join the same pair of nodes; a connection of the sphere
\* surface joins two nodes whose distance is below 4*threshold, and its
\* weight 1 - distance/(4*threshold) is greater than 0 and at most 1.
C22_PairwiseEdges ==
    ( /\ Returned
      /\ callee = "generateInternalStructure"
      /\ name \in DOMAIN structures ) =>
        LET ps == result.positions
            cs == result.connections
        IN /\ \A k \in DOMAIN cs : cs[k].from < cs[k].to
           /\ \A k, l \in DOMAIN cs :
                k # l => { cs[k].from, cs[k].to } # { cs[l].from, cs[l].to }
           /\ config.nodeDistribution = "fibonacci_sphere" =>
                \A k \in DOMAIN cs :
                    LET d2 == Dist2(ps[cs[k].from + 1], ps[cs[k].to + 1])
                        reach == Reach(config.thresholdPct)
                    IN /\ d2 < reach * reach
                       /\ cs[k].weight = 100 - (100 * Sqrt(d2)) \div reach
                       /\ cs[k].weight > 0
                       /\ cs[k].weight <= 100

\* a sphere surface has returned with a connection between two near nodes
\* while another pair of its nodes is too far apart to be connected
C22_Witness ==
    /\ Returned
    /\ config.nodeDistribution = "fibonacci_sphere"
    /\ Len(result.connections) > 1
    /\ \E a, b \in DOMAIN result.positions :
         a < b /\ ~ Near(result.positions[a], result.positions[b], config.thresholdPct)

\* the size of layer L of the hourglass of a config: no target count in it
HourglassSize(cfg, L) ==
    LET midLayer == cfg.numLayers \div 2
        dist == IF L < midLayer THEN midLayer - L ELSE L - midLayer
    IN IF midLayer = 0
       THEN 0
       ELSE RoundDiv(cfg.centerCocoons * midLayer
                       + (cfg.endCocoons - cfg.centerCocoons) * dist, midLayer)

\* C23: the hourglass ignores the target count.  What generateHourglass
\* returns is fixed by its config, so it is the same for every targetCount:
\* the size of each layer comes from endCocoons, centerCocoons and numLayers
\* alone, the nodes are numbered layer by layer, the type of a node is fixed
\* by its layer and its index in the layer, the connections are the fan-in of
\* the nodes in order, and no draw was made.
C23_IgnoresTargetCount ==
    (Returned /\ config.type = "hourglass") =>
        LET ids == layerCocoonIds
            n == config.numLayers
        IN /\ Len(ids) = n
           /\ \A L \in 1 .. n : Len(ids[L]) = HourglassSize(config, L - 1)
           /\ Flatten(ids) = [ k \in 1 .. Len(result.positions) |-> k - 1 ]
           /\ \A L \in 1 .. n : \A x \in DOMAIN ids[L] :
                /\ result.positions[ids[L][x] + 1].layer = L - 1
                /\ result.types[ids[L][x] + 1] =
                     LET list == HourglassLayerTypes(L - 1, n, config.typeDistribution)
                     IN list[((x - 1) % Len(list)) + 1]
           /\ result.connections =
                Flatten([ L \in 1 .. n |->
                    Flatten([ x \in 1 .. Len(ids[L]) |->
                        FanIn(L - 1, IF L > 1 THEN ids[L - 1] ELSE << >>,
                              x - 1, Len(ids[L]), ids[L][x], 15) ]) ])
           /\ rndPos = 0

\* an hourglass with connections has returned from a call whose target count
\* is the largest one and differs from the number of nodes made
C23_Witness ==
    /\ Returned
    /\ config.type = "hourglass"
    /\ cocoonCount = MaxCount
    /\ Len(result.connections) > 0
    /\ Len(result.positions) # cocoonCount

\* C24: after any sequence of togglePlayback, stopPlayback, timer ticks and
\* experiment loads, a playback interval timer is live if and only if
\* isPlaying is true, and at most one playback timer is live.
C24_TimerConsistency ==
    /\ (timers # { }) <=> isPlaying
    /\ Cardinality(timers) <= 1

\* a tick has stopped the playback of a loaded experiment with a history
C24_Witness ==
    /\ currentExperiment # NullObject
    /\ currentExperiment.history # << >>
    /\ stopUpdates = 1
    /\ ~ isPlaying
    /\ timers = { }

\* C25: while an experiment with a non-empty history is loaded,
\* currentTimestep is the timestep of some history entry, stepForward moves
\* it to the entry after one that holds it or returns false at the last
\* entry, and stepBackward moves it to the entry before or returns false at
\* the first entry.
C25_TimestepInHistory ==
    (currentExperiment # NullObject /\ currentExperiment.history # << >>) =>
        LET history == currentExperiment.history
            here == { k \in DOMAIN history : history[k].timestep = currentTimestep }
            forward == StepForward(currentExperiment, currentTimestep)
            backward == StepBackward(currentExperiment, currentTimestep)
        IN  /\ here # { }
            /\ IF forward.ok
               THEN \E k \in here : /\ k < Len(history)
                                    /\ forward.timestep = history[k + 1].timestep
               ELSE Len(history) \in here /\ forward.timestep = currentTimestep
            /\ IF backward.ok
               THEN \E k \in here : /\ k > 1
                                    /\ backward.timestep = history[k - 1].timestep
               ELSE 1 \in here /\ backward.timestep = currentTimestep

\* the outcome of up to fuel timer ticks without any other call: whether a
\* tick has stopped the playback, and the timestep then
RECURSIVE PlayOut(_, _, _)
PlayOut(experiment, t, fuel) ==
    IF fuel = 0
    THEN [ stopped |-> FALSE, timestep |-> t ]
    ELSE LET step == StepForward(experiment, t)
         IN  IF ~ step.ok
             THEN [ stopped |-> TRUE, timestep |-> t ]
             ELSE PlayOut(experiment, step.timestep, fuel - 1)

\* C26: once playback runs on a loaded experiment, finitely many timer ticks
\* without any other call stop it with currentTimestep at the last history
\* entry (a run of ticks that has not stopped after one tick per history
\* entry and two more has repeated a timestep and never stops); the stopping
\* tick delivers onUpdate(false) once, sets isPlaying to false and clears
\* the timer.
C26_PlaybackStops ==
    /\ (isPlaying /\ currentExperiment # NullObject) =>
           LET history == currentExperiment.history
               out == PlayOut(currentExperiment, currentTimestep, Len(history) + 2)
           IN  /\ out.stopped
               /\ history # << >> => out.timestep = history[Len(history)].timestep
    /\ stopUpdates <= 1
    /\ stopUpdates = 1 => (~ isPlaying /\ timers = { })

\* C27: in a loaded network every connection has from and to in
\* [0, positions.length), positions and types have one entry per cocoon in
\* input order, and the connections are those of the document whose two ids
\* are ids of cocoons, in order, each mapped to a cocoon of its id; a
\* connection naming an id no cocoon has is dropped.
C27_LoadedIndexValidity ==
    currentExperiment # NullObject =>
        LET network == currentExperiment.network
            cocoons == network.ncxData.cocoons
            ids == { Field(cocoons[k], "id") : k \in DOMAIN cocoons }
            named == SelectSeq(currentExperiment.connections,
                               LAMBDA c : c.from \in ids /\ c.to \in ids)
        IN  /\ \A k \in DOMAIN network.connections :
                   /\ network.connections[k].from \in 0 .. (Len(network.positions) - 1)
                   /\ network.connections[k].to \in 0 .. (Len(network.positions) - 1)
            /\ Len(network.positions) = Len(cocoons)
            /\ Len(network.types) = Len(cocoons)
            /\ \A k \in DOMAIN cocoons :
                   << network.positions[k].x, network.positions[k].y,
                      network.positions[k].z >> = cocoons[k].position
            /\ Len(network.connections) = Len(named)
            /\ \A k \in DOMAIN named :
                   /\ Field(cocoons[network.connections[k].from + 1], "id") = named[k].from
                   /\ Field(cocoons[network.connections[k].to + 1], "id") = named[k].to

\* a document with a compact string and two cocoons of one id is loaded,
\* and its connection is kept
C27_Witness ==
    /\ currentExperiment # NullObject
    /\ "str" \in DOMAIN currentExperiment.network.ncxData.connections
    /\ Len(currentExperiment.cocoons) = 2
    /\ Field(currentExperiment.cocoons[1], "id") = Field(currentExperiment.cocoons[2], "id")
    /\ Len(currentExperiment.network.connections) = 1
    /\ currentExperiment.network.connections[1].from = 1

\* C28: an open that finds no cocoon data leaves the viewer closed, and
\* isOpen is true only if the modal is displayed: while the modal is hidden,
\* isOpen is false, currentCocoonId is null and no animation frame has been
\* requested.
C28_FailedOpenClosed ==
    modalDisplay = "none" =>
        /\ ~ isOpen
        /\ currentCocoonId = Null
        /\ animationId = Null

\* C29: at most one animation-frame callback of the internal viewer is
\* pending at a time, and while the viewer is closed no step other than an
\* open adds a pending callback: a callback that is left returns without
\* requesting a frame.
C29_SingleAnimationLoop ==
    [][ /\ Cardinality(frames') <= 1
        /\ (~ isOpen /\ ~ isOpen') => frames' \subseteq frames ]_vars

\* C30: a call of regenerate for a known topology leaves showFlow and
\* autoRotate as they were before the call (no step of the call changes
\* them), makes the newly generated network the current network, a new
\* object, and, when showFlow is true afterwards, every flow particle was
\* created for a connection of the new network.
C30_RegeneratePreserves ==
    [][ /\ (pc # "idle" \/ pc' # "idle") =>
               (showFlow' = showFlow /\ autoRotate' = autoRotate)
        /\ (pc = "done" /\ outcome = "returned" /\ pc' = "idle") =>
               /\ currentNetwork' # NullObject
               /\ currentNetwork'.network = result
               /\ currentNetwork = NullObject \/ currentNetwork'.serial # currentNetwork.serial
               /\ showFlow' =>
                      \A k \in DOMAIN flowParticles' :
                          /\ flowParticles'[k].serial = currentNetwork'.serial
                          /\ flowParticles'[k].connIdx + 1 \in DOMAIN result.connections ]_vars

\* a regenerate with the flow enabled has replaced a network that had flow
\* particles by a network that has some
C30_Witness ==
    /\ pc = "idle"
    /\ showFlow
    /\ wasFlowEnabled
    /\ currentNetwork # NullObject
    /\ currentNetwork.serial = 2
    /\ flowParticles # << >>

====
